---- MODULE Spec2Model ----
(***************************************************************************)
(* The configuration store of pynamixel (src/pynamixel/config.py):         *)
(* ConfigManager (the Store) and the ConfigLoaderBase strategies           *)
(* JsonConfigLoader and YamlConfigLoader.                                  *)
(*                                                                         *)
(* Python objects are records [type, val]; a dict is a function from its   *)
(* keys; a raised exception is the "err" field of an operator's result.    *)
(***************************************************************************)
EXTENDS Integers, FiniteSets, Sequences, TLC

\* ------------------------------------------------------------- bounds
\* Integers 1..MaxInt are the scalar config values the callers write.
MaxInt == 1

\* ------------------------------------------------------ Python values
None_ == [type |-> "NoneType", val |-> "None"]
PyStr(s) == [type |-> "str", val |-> s]
PyInt(i) == [type |-> "int", val |-> ToString(i)]
PyBool(b) == [type |-> "bool", val |-> IF b THEN "True" ELSE "False"]
PyTuple == [type |-> "tuple", val |-> "(1, 2)"]
PyList == [type |-> "list", val |-> "[1, 2]"]
PyDict == [type |-> "dict", val |-> "{...}"]

\* bool(x): what `x or y` tests.
Truthy(x) ==
    CASE x.type = "NoneType" -> FALSE
      [] x.type = "str" -> x.val # ""
      [] x.type = "int" -> x.val # "0"
      [] x.type = "bool" -> x.val = "True"
      [] OTHER -> TRUE

\* `a or b`
Or(a, b) == IF Truthy(a) THEN a ELSE b

\* isinstance(x, (str, Path))
IsStrOrPath(x) == x.type \in {"str", "Path"}

LoaderClasses == {"JsonConfigLoader", "YamlConfigLoader"}
JsonLoader == [type |-> "JsonConfigLoader", val |-> "json1"]
YamlLoader == [type |-> "YamlConfigLoader", val |-> "yaml1"]
LoaderInstances == {JsonLoader, YamlLoader}
\* A value that is no ConfigLoaderBase: the test's "InvalidLoader" string.
InvalidLoader == PyStr("InvalidLoader")

\* isinstance(x, ConfigLoaderBase)
IsConfigLoader(x) == x.type \in LoaderClasses

\* ---------------------------------------------------- inputs (bounded)
Keys == {"key", "name"}
Values == {PyInt(i) : i \in 1..MaxInt} \cup {PyStr("value"), PyTuple, PyList}
EmptyStr == PyStr("")
Path1 == PyStr("config.json")
Path2 == PyStr("other.yaml")
NotAPath == PyInt(123)
FilePaths == {Path1, Path2}
PathArgs == {None_, EmptyStr, Path1, Path2, NotAPath}
LoaderArgs == {None_, InvalidLoader, JsonLoader, YamlLoader}

\* dicts over Keys
EmptyDict == [k \in {} |-> None_]
DictSet(d, k, v) == [x \in DOMAIN d \cup {k} |-> IF x = k THEN v ELSE d[x]]

\* ------------------------------------------------- files and formats
\* A file's text, by what the two parsers make of it.  kind: "absent" (no
\* such file), "garbage" (neither parser accepts it), "sequence" (a
\* top-level list such as "[1, 2]", which both parsers read) or "mapping".
\* style: "flow" is JSON text, which the YAML parser reads too; "block"
\* is YAML block style, which the JSON parser rejects.  items maps each
\* key to the node written for it.
Absent == [kind |-> "absent", style |-> "none", items |-> EmptyDict]
Garbage == [kind |-> "garbage", style |-> "none", items |-> EmptyDict]
SequenceText == [kind |-> "sequence", style |-> "flow", items |-> EmptyDict]
MappingText(style, items) == [kind |-> "mapping", style |-> style, items |-> items]

\* The YAML node yaml.dump writes for a tuple: tagged !!python/tuple.
PyTupleTag == [type |-> "python/tuple", val |-> "(1, 2)"]

\* json.dump of one value as it would be with default=str applied to every
\* value: numbers come back as strings.
json_dump_value_as_str(v) ==
    IF v.type = "tuple" THEN PyList
    ELSE IF v.type = "int" THEN PyStr(v.val) ELSE v

\* json.dump of one value: a tuple is written as an array, like a list.
json_dump_value(v) == IF v.type = "tuple" THEN PyList ELSE v

\* json.dump(config, file, indent=4)
json_dump(config) ==
    MappingText("flow", [k \in DOMAIN config |-> json_dump_value(config[k])])

\* yaml.dump of one value: a tuple gets the python/tuple tag.
yaml_dump_value(v) == IF v.type = "tuple" THEN PyTupleTag ELSE v

\* yaml.dump(config, file, default_flow_style=False, indent=4); an empty
\* mapping has no block form and is written as "{}".
yaml_dump(config) ==
    MappingText(IF DOMAIN config = {} THEN "flow" ELSE "block",
                [k \in DOMAIN config |-> yaml_dump_value(config[k])])

\* A decoded document: a dict (isdict, items) or some other object.
Decoded(err, isdict, items) == [err |-> err, isdict |-> isdict, items |-> items]

\* json.load(file)
json_load(text) ==
    CASE text.kind = "garbage" -> Decoded("JSONDecodeError", FALSE, EmptyDict)
      [] text.style = "block" -> Decoded("JSONDecodeError", FALSE, EmptyDict)
      [] text.kind = "sequence" -> Decoded("none", FALSE, EmptyDict)
      [] OTHER -> Decoded("none", TRUE, text.items)

\* yaml.safe_load(file): refuses the python/tuple tag.
yaml_safe_load(text) ==
    CASE text.kind = "garbage" -> Decoded("YAMLError", FALSE, EmptyDict)
      [] text.kind = "sequence" -> Decoded("none", FALSE, EmptyDict)
      [] \E k \in DOMAIN text.items : text.items[k].type = "python/tuple" ->
            Decoded("YAMLError", FALSE, EmptyDict)
      [] OTHER -> Decoded("none", TRUE, text.items)

\* os.path.exists(path)
os_path_exists(fs, path) == path \in DOMAIN fs /\ fs[path].kind # "absent"

\* ------------------------------------------------------------- state
VARIABLES
    config_data,            \* ConfigManager.__config_data
    is_config_initialized,  \* ConfigManager.is_config_initialized
    config_file_type,       \* ConfigManager.__config_file_type
    config_file_path,       \* ConfigManager.__config_file_path
    config_loader,          \* ConfigManager.__config_loader
    obj_dict,               \* the other entries of the Store's __dict__
    loaders,                \* each loader instance's two __file_path fields
    files,                  \* the file system: path -> text
    last                    \* the last call: its arguments and its outcome

vars == <<config_data, is_config_initialized, config_file_type, config_file_path,
          config_loader, obj_dict, loaders, files, last>>

\* ---------------------------------------------------- loader strategy
\* ConfigLoaderBase.__init__ sets _ConfigLoaderBase__file_path; the
\* subclasses' load_config assigns self.__file_path inside the subclass body,
\* which is the attribute _JsonConfigLoader__file_path (or _Yaml...).
NewLoaderState == [base_file_path |-> None_, sub_file_path |-> None_]

\* The config argument of save_config: a dict, or a str holding raw text.
DictArg(d) == [type |-> "dict", items |-> d, text |-> Absent]
StrArg(t) == [type |-> "str", items |-> EmptyDict, text |-> t]

\* ConfigLoaderBase.check_path
check_path(lstate, file_path) ==
    IF file_path = None_
    THEN IF lstate.base_file_path # None_
         THEN [err |-> "none", ret |-> lstate.base_file_path]
         ELSE [err |-> "AssertionError", ret |-> None_]
    ELSE IF IsStrOrPath(file_path)
         THEN [err |-> "none", ret |-> file_path]
         ELSE [err |-> "AssertionError", ret |-> None_]

\* The outcome of a loader call: the exception, the returned object (a
\* decoded document for load_config, a bool for save_config), the path
\* check_path resolved, and the loader and file system afterwards.
LoaderResult(err, ret, doc, resolved, lstate, fs) ==
    [err |-> err, ret |-> ret, doc |-> doc, resolved |-> resolved,
     lstate |-> lstate, fs |-> fs]

NoDoc == Decoded("none", FALSE, EmptyDict)

\* JsonConfigLoader.load_config
JsonConfigLoader_load_config(lstate, file_path, fs) ==
    LET cp == check_path(lstate, file_path) IN
    IF cp.err # "none"
    THEN LoaderResult(cp.err, None_, NoDoc, None_, lstate, fs)
    ELSE LET ls == [lstate EXCEPT !.sub_file_path = cp.ret] IN
         IF ~os_path_exists(fs, cp.ret)
         THEN LoaderResult("FileNotFoundError", None_, NoDoc, cp.ret, ls, fs)
         ELSE LET d == json_load(fs[cp.ret]) IN
              LoaderResult(d.err, IF d.err = "none" THEN PyDict ELSE None_, d,
                           cp.ret, ls, fs)

\* YamlConfigLoader.load_config
YamlConfigLoader_load_config(lstate, file_path, fs) ==
    LET cp == check_path(lstate, file_path) IN
    IF cp.err # "none"
    THEN LoaderResult(cp.err, None_, NoDoc, None_, lstate, fs)
    ELSE LET ls == [lstate EXCEPT !.sub_file_path = cp.ret] IN
         IF ~os_path_exists(fs, cp.ret)
         THEN LoaderResult("FileNotFoundError", None_, NoDoc, cp.ret, ls, fs)
         ELSE LET d == yaml_safe_load(fs[cp.ret]) IN
              LoaderResult(d.err, IF d.err = "none" THEN PyDict ELSE None_, d,
                           cp.ret, ls, fs)

\* open(_path, 'w'): fails (OSError) on an I/O fault and on a path that
\* names no file, such as the empty string.
open_w_fails(path, fault) == fault \/ path \notin FilePaths

\* JsonConfigLoader.save_config
JsonConfigLoader_save_config(lstate, config, file_path, fs, fault) ==
    LET cp == check_path(lstate, file_path) IN
    IF cp.err # "none"
    THEN LoaderResult(cp.err, None_, NoDoc, None_, lstate, fs)
    ELSE LET obj == IF config.type = "str" THEN json_load(config.text)
                    ELSE Decoded("none", TRUE, config.items) IN
         IF obj.err # "none" \/ open_w_fails(cp.ret, fault)
         THEN LoaderResult("none", PyBool(FALSE), NoDoc, cp.ret, lstate, fs)
         ELSE LoaderResult("none", PyBool(TRUE), NoDoc, cp.ret, lstate,
                  [fs EXCEPT ![cp.ret] =
                      IF obj.isdict THEN json_dump(obj.items) ELSE SequenceText])

\* YamlConfigLoader.save_config
YamlConfigLoader_save_config(lstate, config, file_path, fs, fault) ==
    LET cp == check_path(lstate, file_path) IN
    IF cp.err # "none"
    THEN LoaderResult(cp.err, None_, NoDoc, None_, lstate, fs)
    ELSE LET obj == IF config.type = "str" THEN yaml_safe_load(config.text)
                    ELSE Decoded("none", TRUE, config.items) IN
         IF obj.err # "none" \/ open_w_fails(cp.ret, fault)
         THEN LoaderResult("none", PyBool(FALSE), NoDoc, cp.ret, lstate, fs)
         ELSE LoaderResult("none", PyBool(TRUE), NoDoc, cp.ret, lstate,
                  [fs EXCEPT ![cp.ret] =
                      IF obj.isdict THEN yaml_dump(obj.items) ELSE SequenceText])

\* loader.load_config(path): method lookup on whatever object loader is.
call_load_config(loader, lstates, file_path, fs) ==
    CASE loader.type = "JsonConfigLoader" ->
            JsonConfigLoader_load_config(lstates[loader], file_path, fs)
      [] loader.type = "YamlConfigLoader" ->
            YamlConfigLoader_load_config(lstates[loader], file_path, fs)
      [] OTHER -> LoaderResult("AttributeError", None_, NoDoc, None_,
                               NewLoaderState, fs)

\* loader.save_config(config, path)
call_save_config(loader, lstates, config, file_path, fs, fault) ==
    CASE loader.type = "JsonConfigLoader" ->
            JsonConfigLoader_save_config(lstates[loader], config, file_path, fs, fault)
      [] loader.type = "YamlConfigLoader" ->
            YamlConfigLoader_save_config(lstates[loader], config, file_path, fs, fault)
      [] OTHER -> LoaderResult("AttributeError", None_, NoDoc, None_,
                               NewLoaderState, fs)

\* The loaders after a call on `loader` left it in state ls.
LoadersAfter(lstates, loader, ls) ==
    IF loader \in DOMAIN lstates THEN [lstates EXCEPT ![loader] = ls] ELSE lstates

\* --------------------------------------------------------- the Store
\* ConfigManager.__init__
ConfigManager_init(file_path, config_loader_) ==
    [config_data |-> EmptyDict,
     is_config_initialized |-> FALSE,
     config_file_type |-> None_,
     config_file_path |-> file_path,
     config_loader |-> config_loader_,
     obj_dict |-> EmptyDict]

Self ==
    [config_data |-> config_data,
     is_config_initialized |-> is_config_initialized,
     config_file_type |-> config_file_type,
     config_file_path |-> config_file_path,
     config_loader |-> config_loader,
     obj_dict |-> obj_dict]

StoreResult(err, self) == [err |-> err, self |-> self]

\* self.__dict__.get(name) for the names the class did not declare
dict_get(self, name) ==
    IF name \in DOMAIN self.obj_dict THEN self.obj_dict[name] ELSE None_

\* The test of ConfigManager.__setattr__: true when the write goes to
\* object.__setattr__, false when it goes into __config_data.
setattr_goes_to_object(self, name) ==
    dict_get(self, "__config") = None_ \/ name \notin DOMAIN self.config_data

\* object.__setattr__ on an instance field
object_setattr(self, name, value) ==
    CASE name = "_ConfigManager__config_data" -> [self EXCEPT !.config_data = value]
      [] name = "is_config_initialized" -> [self EXCEPT !.is_config_initialized = value]
      [] name = "_ConfigManager__config_file_type" -> [self EXCEPT !.config_file_type = value]
      [] name = "_ConfigManager__config_file_path" -> [self EXCEPT !.config_file_path = value]
      [] name = "_ConfigManager__config_loader" -> [self EXCEPT !.config_loader = value]
      [] OTHER -> [self EXCEPT !.obj_dict = DictSet(self.obj_dict, name, value)]

\* ConfigManager.__setattr__ for a name that is no property of the class
setattr_field(self, name, value) ==
    IF setattr_goes_to_object(self, name)
    THEN object_setattr(self, name, value)
    ELSE [self EXCEPT !.config_data = DictSet(self.config_data, name, value)]

\* The config_file_path setter as it would be if it validated the value and
\* did not store it.
config_file_path_setter_forgets(self, file_path) ==
    IF file_path = None_ THEN StoreResult("ValueError", self)
    ELSE IF ~IsStrOrPath(file_path) THEN StoreResult("ValueError", self)
    ELSE StoreResult("none", self)

\* the config_file_path setter
config_file_path_setter(self, file_path) ==
    IF file_path = None_ THEN StoreResult("ValueError", self)
    ELSE IF ~IsStrOrPath(file_path) THEN StoreResult("ValueError", self)
    ELSE StoreResult("none",
             setattr_field(self, "_ConfigManager__config_file_path", file_path))

\* loader.__class__.__name__.lower().replace('configloader', '')
format_tag(loader) ==
    IF loader.type = "JsonConfigLoader" THEN PyStr("json") ELSE PyStr("yaml")

\* the config_loader setter
config_loader_setter(self, loader) ==
    IF loader = None_ THEN StoreResult("ValueError", self)
    ELSE IF ~IsConfigLoader(loader) THEN StoreResult("ValueError", self)
    ELSE StoreResult("none",
             setattr_field(
                 setattr_field(self, "_ConfigManager__config_file_type",
                               format_tag(loader)),
                 "_ConfigManager__config_loader", loader))

\* ConfigManager.__setattr__(name, value), properties included
ConfigManager_setattr(self, name, value) ==
    IF setattr_goes_to_object(self, name)
    THEN CASE name = "config_file_path" -> config_file_path_setter(self, value)
           [] name = "config_loader" -> config_loader_setter(self, value)
           [] name = "config_data" -> StoreResult("AttributeError", self)
           [] OTHER -> StoreResult("none", object_setattr(self, name, value))
    ELSE StoreResult("none",
             [self EXCEPT !.config_data = DictSet(self.config_data, name, value)])

\* ConfigManager.__getattr__(name): Python calls it only when the normal
\* lookup found nothing.
ConfigManager_getattr(self, name) ==
    IF name \in DOMAIN self.config_data
    THEN [err |-> "none", ret |-> self.config_data[name]]
    ELSE [err |-> "AttributeError", ret |-> None_]

\* The attribute read store.name: the instance __dict__ first, then
\* __getattr__.
attribute_read(self, name) ==
    IF name \in DOMAIN self.obj_dict
    THEN [err |-> "none", ret |-> self.obj_dict[name]]
    ELSE ConfigManager_getattr(self, name)

\* ConfigManager.__getitem__
ConfigManager_getitem(self, key) ==
    IF key \in DOMAIN self.config_data
    THEN [err |-> "none", ret |-> self.config_data[key]]
    ELSE [err |-> "KeyError", ret |-> None_]

\* ConfigManager.__setitem__
ConfigManager_setitem(self, key, value) ==
    [self EXCEPT !.config_data = DictSet(self.config_data, key, value)]

\* The outcome of a Store call: the exception, the returned value, the
\* Store, loaders and files afterwards, and what it asked of the strategy:
\* the strategy object, the method called on it ("none" if it was not
\* reached), the path handed to it and what it returned.
CallResult(err, ret, self, lstates, fs, strategy, method, handed, strategy_ret) ==
    [err |-> err, ret |-> ret, self |-> self, lstates |-> lstates, fs |-> fs,
     strategy |-> strategy, method |-> method, handed |-> handed,
     strategy_ret |-> strategy_ret]

\* __load_config_file as it would be if it stored the decoded object before
\* validating it.
load_config_file_stores_first(self, lstates, fs) ==
    LET r == call_load_config(self.config_loader, lstates, self.config_file_path, fs)
        ls == LoadersAfter(lstates, self.config_loader, r.lstate)
        stored == setattr_field(self, "_ConfigManager__config_data", r.doc.items)
        res(err, s) == CallResult(err, None_, s, ls, fs, self.config_loader,
                                  "load_config", self.config_file_path, r.ret)
    IN  IF r.err # "none" THEN res(r.err, self)
        ELSE IF ~r.doc.isdict THEN res("ValueError", stored)
        ELSE IF DOMAIN r.doc.items = {} THEN res("ValueError", stored)
        ELSE res("none", setattr_field(stored, "is_config_initialized", TRUE))

\* __load_config_file as it would be if it updated the old dict with the
\* decoded one (dict.update) instead of replacing it.
load_config_file_merges(self, lstates, fs) ==
    LET r == call_load_config(self.config_loader, lstates, self.config_file_path, fs)
        ls == LoadersAfter(lstates, self.config_loader, r.lstate)
        merged == [k \in DOMAIN self.config_data \cup DOMAIN r.doc.items |->
                      IF k \in DOMAIN r.doc.items THEN r.doc.items[k]
                      ELSE self.config_data[k]]
        res(err, s) == CallResult(err, None_, s, ls, fs, self.config_loader,
                                  "load_config", self.config_file_path, r.ret)
    IN  IF r.err # "none" THEN res(r.err, self)
        ELSE IF ~r.doc.isdict THEN res("ValueError", self)
        ELSE IF DOMAIN r.doc.items = {} THEN res("ValueError", self)
        ELSE res("none",
                 setattr_field(
                     setattr_field(self, "_ConfigManager__config_data", merged),
                     "is_config_initialized", TRUE))

\* ConfigManager.__load_config_file
load_config_file(self, lstates, fs) ==
    LET r == call_load_config(self.config_loader, lstates, self.config_file_path, fs)
        ls == LoadersAfter(lstates, self.config_loader, r.lstate)
        res(err, s) == CallResult(err, None_, s, ls, fs, self.config_loader,
                                  "load_config", self.config_file_path, r.ret)
    IN  IF r.err = "AttributeError"
        THEN CallResult(r.err, None_, self, lstates, fs, self.config_loader,
                        "none", None_, None_)
        ELSE IF r.err # "none" THEN res(r.err, self)
        ELSE IF ~r.doc.isdict THEN res("ValueError", self)
        ELSE IF DOMAIN r.doc.items = {} THEN res("ValueError", self)
        ELSE res("none",
                 setattr_field(
                     setattr_field(self, "_ConfigManager__config_data", r.doc.items),
                     "is_config_initialized", TRUE))

\* ConfigManager.load_config_from_file
load_config_from_file(self, lstates, fs, loader, file_path) ==
    LET r1 == ConfigManager_setattr(self, "config_file_path",
                                    Or(file_path, self.config_file_path))
        r2 == ConfigManager_setattr(r1.self, "config_loader",
                                    Or(loader, r1.self.config_loader))
    IN  IF r1.err # "none"
        THEN CallResult(r1.err, None_, r1.self, lstates, fs, None_, "none", None_, None_)
        ELSE IF r2.err # "none"
        THEN CallResult(r2.err, None_, r2.self, lstates, fs, None_, "none", None_, None_)
        ELSE load_config_file(r2.self, lstates, fs)

\* save_config_to_file as it would be without its assert statement: the
\* call goes on to None.save_config.
save_config_to_file_no_assert(self, lstates, fs, file_path, fault) ==
    LET r1 == ConfigManager_setattr(self, "config_file_path",
                                    Or(file_path, self.config_file_path))
        s == r1.self
        r == call_save_config(s.config_loader, lstates, DictArg(s.config_data),
                              s.config_file_path, fs, fault)
    IN  IF r1.err # "none"
        THEN CallResult(r1.err, None_, s, lstates, fs, None_, "none", None_, None_)
        ELSE CallResult(r.err, None_, s,
                        LoadersAfter(lstates, s.config_loader, r.lstate), r.fs,
                        s.config_loader,
                        IF r.err = "AttributeError" THEN "none" ELSE "save_config",
                        IF r.err = "AttributeError" THEN None_ ELSE s.config_file_path,
                        r.ret)

\* ConfigManager.save_config_to_file: it has no return statement.
save_config_to_file(self, lstates, fs, file_path, fault) ==
    LET r1 == ConfigManager_setattr(self, "config_file_path",
                                    Or(file_path, self.config_file_path))
        s == r1.self
        r == call_save_config(s.config_loader, lstates, DictArg(s.config_data),
                              s.config_file_path, fs, fault)
    IN  IF r1.err # "none"
        THEN CallResult(r1.err, None_, s, lstates, fs, None_, "none", None_, None_)
        ELSE IF s.config_loader = None_
        THEN CallResult("AssertionError", None_, s, lstates, fs, None_, "none",
                        None_, None_)
        ELSE CallResult(r.err, None_, s,
                        LoadersAfter(lstates, s.config_loader, r.lstate), r.fs,
                        s.config_loader,
                        IF r.err = "AttributeError" THEN "none" ELSE "save_config",
                        IF r.err = "AttributeError" THEN None_ ELSE s.config_file_path,
                        r.ret)

\* ----------------------------------------------------------- actions
\* What `last` keeps of a call.  op names the call; arg_path, arg_loader,
\* key and value are its arguments; keys_before is the set of keys of
\* __config_data when the call began; the rest is its outcome.
Call(op, arg_path, arg_loader, key, value, keys_before, err, ret, strategy, method, handed, strategy_ret, resolved) ==
    [op |-> op, arg_path |-> arg_path, arg_loader |-> arg_loader, key |-> key,
     value |-> value, keys_before |-> keys_before, err |-> err, ret |-> ret,
     strategy |-> strategy, method |-> method, handed |-> handed,
     strategy_ret |-> strategy_ret, resolved |-> resolved]

NoCall == Call("init", None_, None_, "", None_, {}, "none", None_, None_,
               "none", None_, None_, None_)

\* The Store's fields become those of s.
StoreBecomes(s) ==
    /\ config_data' = s.config_data
    /\ is_config_initialized' = s.is_config_initialized
    /\ config_file_type' = s.config_file_type
    /\ config_file_path' = s.config_file_path
    /\ config_loader' = s.config_loader
    /\ obj_dict' = s.obj_dict

StoreCall(op, arg_path, arg_loader, r) ==
    /\ StoreBecomes(r.self)
    /\ loaders' = r.lstates
    /\ files' = r.fs
    /\ last' = Call(op, arg_path, arg_loader, "", None_, DOMAIN config_data,
                    r.err, r.ret,
                    r.strategy, r.method, r.handed, r.strategy_ret, None_)

\* store.load_config_from_file(loader, file_path)
Load(loader, file_path) ==
    StoreCall("load", file_path, loader,
              load_config_from_file(Self, loaders, files, loader, file_path))

\* store.save_config_to_file(file_path); fault: open() raises OSError.
Save(file_path, fault) ==
    StoreCall("save", file_path, None_,
              save_config_to_file(Self, loaders, files, file_path, fault))

\* store[key] = value
SetItem(key, value) ==
    /\ StoreBecomes(ConfigManager_setitem(Self, key, value))
    /\ last' = Call("setitem", None_, None_, key, value, DOMAIN config_data,
                    "none", None_, None_, "none", None_, None_, None_)
    /\ UNCHANGED <<loaders, files>>

\* store[key]
GetItem(key) ==
    LET r == ConfigManager_getitem(Self, key) IN
    /\ last' = Call("getitem", None_, None_, key, None_, DOMAIN config_data,
                    r.err, r.ret, None_, "none", None_, None_, None_)
    /\ UNCHANGED <<config_data, is_config_initialized, config_file_type,
                   config_file_path, config_loader, obj_dict, loaders, files>>

\* store.name = value, for a name the class does not declare
SetAttr(name, value) ==
    LET r == ConfigManager_setattr(Self, name, value) IN
    /\ StoreBecomes(r.self)
    /\ last' = Call("setattr", None_, None_, name, value, DOMAIN config_data,
                    r.err, None_, None_, "none", None_, None_, None_)
    /\ UNCHANGED <<loaders, files>>

\* store.name
GetAttr(name) ==
    LET r == attribute_read(Self, name) IN
    /\ last' = Call("getattr", None_, None_, name, None_, DOMAIN config_data,
                    r.err, r.ret, None_, "none", None_, None_, None_)
    /\ UNCHANGED <<config_data, is_config_initialized, config_file_type,
                   config_file_path, config_loader, obj_dict, loaders, files>>

\* store.config_loader = loader
AssignLoader(loader) ==
    LET r == ConfigManager_setattr(Self, "config_loader", loader) IN
    /\ StoreBecomes(r.self)
    /\ last' = Call("assign_loader", None_, loader, "", None_, {}, r.err, None_,
                    None_, "none", None_, None_, None_)
    /\ UNCHANGED <<loaders, files>>

\* store.config_file_path = file_path
AssignPath(file_path) ==
    LET r == ConfigManager_setattr(Self, "config_file_path", file_path) IN
    /\ StoreBecomes(r.self)
    /\ last' = Call("assign_path", file_path, None_, "", None_, {}, r.err, None_,
                    None_, "none", None_, None_, None_)
    /\ UNCHANGED <<loaders, files>>

\* A direct call on a loader instance.
LoaderCall(op, loader, file_path, r) ==
    /\ loaders' = [loaders EXCEPT ![loader] = r.lstate]
    /\ files' = r.fs
    /\ last' = Call(op, file_path, loader, "", None_, {}, r.err, r.ret, loader,
                    op, file_path, r.ret, r.resolved)
    /\ UNCHANGED <<config_data, is_config_initialized, config_file_type,
                   config_file_path, config_loader, obj_dict>>

\* loader.check_path(file_path)
CheckPath(loader, file_path) ==
    LET cp == check_path(loaders[loader], file_path) IN
    LoaderCall("check_path", loader, file_path,
               LoaderResult(cp.err, cp.ret, NoDoc, cp.ret, loaders[loader], files))

\* loader.load_config(file_path)
LoaderLoad(loader, file_path) ==
    LoaderCall("load_config", loader, file_path,
               call_load_config(loader, loaders, file_path, files))

\* loader.save_config(config, file_path)
LoaderSave(loader, config, file_path, fault) ==
    LoaderCall("save_config", loader, file_path,
               call_save_config(loader, loaders, config, file_path, files, fault))

\* Something outside the program rewrites or deletes a file.
FileChanges(path, text) ==
    /\ files[path] # text
    /\ files' = [files EXCEPT ![path] = text]
    /\ last' = Call("file_changes", path, None_, "", None_, {}, "none", None_,
                    None_, "none", None_, None_, None_)
    /\ UNCHANGED <<config_data, is_config_initialized, config_file_type,
                   config_file_path, config_loader, obj_dict, loaders>>

\* ---------------------------------------------------- specifications
StoreIs(s) ==
    /\ config_data = s.config_data
    /\ is_config_initialized = s.is_config_initialized
    /\ config_file_type = s.config_file_type
    /\ config_file_path = s.config_file_path
    /\ config_loader = s.config_loader
    /\ obj_dict = s.obj_dict

\* The state after ConfigManager(file_path, config_loader_), with fresh
\* loader instances and the files as given.
Constructed(file_path, config_loader_, fs) ==
    /\ StoreIs(ConfigManager_init(file_path, config_loader_))
    /\ loaders = [l \in LoaderInstances |-> NewLoaderState]
    /\ files = fs
    /\ last = NoCall

NoFiles == [p \in FilePaths |-> Absent]

\* Texts a file is given from outside: none, unparseable, a list, an empty
\* mapping, and mappings in either format.
ExternalTexts ==
    {Absent, Garbage, SequenceText, json_dump(EmptyDict),
     json_dump([k \in {"key"} |-> PyInt(1)]),
     yaml_dump([k \in {"name"} |-> PyList])}

\* Load, save and keyed writes on one configuration file, with valid and
\* invalid arguments.
Init ==
    \E l \in LoaderInstances : Constructed(Path1, l, NoFiles)

Next ==
    \/ \E l \in LoaderArgs, p \in {None_, Path1, NotAPath} : Load(l, p)
    \/ \E p \in {None_, Path1, NotAPath}, fault \in BOOLEAN : Save(p, fault)
    \/ \E k \in Keys, v \in Values : SetItem(k, v)
    \/ \E t \in ExternalTexts : FileChanges(Path1, t)

Spec == Init /\ [][Next]_vars

\* Paths and strategies: every constructor argument, every explicit
\* argument of load and save, and the two property assignments.
InitPaths ==
    \E p \in PathArgs, l \in LoaderArgs :
        \E fs \in [FilePaths -> {Absent, json_dump([k \in {"key"} |-> PyInt(1)])}] :
            Constructed(p, l, fs)

NextPaths ==
    \/ \E l \in LoaderArgs, p \in PathArgs : Load(l, p)
    \/ \E p \in PathArgs, fault \in BOOLEAN : Save(p, fault)
    \/ \E l \in LoaderArgs : AssignLoader(l)
    \/ \E p \in PathArgs : AssignPath(p)

SpecPaths == InitPaths /\ [][NextPaths]_vars

\* Keyed and attribute access to a Store, fresh or loaded from a file.
InitAccess ==
    Constructed(Path1, JsonLoader,
                [NoFiles EXCEPT ![Path1] = json_dump([k \in {"key"} |-> PyInt(1)])])

NextAccess ==
    \/ \E k \in Keys, v \in Values : SetItem(k, v)
    \/ \E k \in Keys : GetItem(k)
    \/ \E k \in Keys, v \in Values : SetAttr(k, v)
    \/ \E k \in Keys : GetAttr(k)
    \/ Load(None_, None_)

SpecAccess == InitAccess /\ [][NextAccess]_vars

\* Direct calls on the loader instances.
InitLoader == Constructed(None_, None_, NoFiles)

NextLoader ==
    \/ \E l \in LoaderInstances, p \in PathArgs : CheckPath(l, p)
    \/ \E l \in LoaderInstances, p \in PathArgs : LoaderLoad(l, p)
    \/ \E l \in LoaderInstances, p \in PathArgs, fault \in BOOLEAN :
           \E c \in {DictArg([k \in {"key"} |-> PyInt(1)]),
                     StrArg(json_dump([k \in {"name"} |-> PyList])),
                     StrArg(Garbage)} :
               LoaderSave(l, c, p, fault)

SpecLoader == InitLoader /\ [][NextLoader]_vars

\* ------------------------------------------------------------- claims
\* What the strategy object `strategy` decodes from `text`.
DecodedBy(strategy, text) ==
    IF strategy.type = "JsonConfigLoader" THEN json_load(text) ELSE yaml_safe_load(text)

\* C1: a load that fails leaves __config_data and is_config_initialized as
\* they were; a load whose resolved path does not exist fails with
\* FileNotFoundError whichever loader is used, and one whose file decodes to
\* a non-dict or to an empty dict fails with ValueError.
C1_FailedLoadChangesNothing ==
    [][(last'.op = "load") =>
        /\ (last'.err # "none") =>
              /\ config_data' = config_data
              /\ is_config_initialized' = is_config_initialized
        /\ (last'.method = "load_config" /\ ~os_path_exists(files, last'.handed)) =>
              last'.err = "FileNotFoundError"
        /\ (/\ last'.method = "load_config"
            /\ os_path_exists(files, last'.handed)
            /\ LET d == DecodedBy(last'.strategy, files[last'.handed])
               IN  d.err = "none" /\ (~d.isdict \/ DOMAIN d.items = {})) =>
              last'.err = "ValueError"
      ]_vars

\* A loaded Store with keys on which a load has just failed, for a missing
\* file or for a rejected document.
C1_Witness ==
    /\ last.op = "load"
    /\ last.err \in {"FileNotFoundError", "ValueError"}
    /\ last.method = "load_config"
    /\ is_config_initialized
    /\ DOMAIN config_data = Keys

\* C2: after every successful load is_config_initialized is true and
\* __config_data is exactly the dict decoded from the file: no key of the
\* old dict that the file lacks is left.
C2_LoadReplacesWholesale ==
    (last.op = "load" /\ last.err = "none") =>
        /\ is_config_initialized
        /\ last.method = "load_config"
        /\ LET d == DecodedBy(last.strategy, files[last.handed])
           IN  /\ d.isdict
               /\ config_data = d.items
               /\ \A k \in last.keys_before :
                      k \notin DOMAIN d.items => k \notin DOMAIN config_data

\* A successful load that dropped a key the Store had before it.
C2_Witness ==
    /\ last.op = "load"
    /\ last.err = "none"
    /\ last.keys_before \ DOMAIN config_data # {}

\* C3: save_config_to_file returns True when the strategy's save_config
\* wrote the file and False when the write failed, without raising.
C3_SaveReturnsBool ==
    (last.op = "save" /\ last.method = "save_config") =>
        /\ last.err = "none"
        /\ last.strategy_ret = PyBool(TRUE) => last.ret = PyBool(TRUE)
        /\ last.strategy_ret = PyBool(FALSE) => last.ret = PyBool(FALSE)

\* A value that the formats write and read back as it was.
ReadsBackEqual(v) == v.type \in {"str", "int", "list"}

\* A save that wrote the file, directly followed by a load of the same path
\* with the same strategy.
SaveThenLoad ==
    /\ last.op = "save"
    /\ last.strategy_ret = PyBool(TRUE)
    /\ last'.op = "load"
    /\ last'.method = "load_config"
    /\ last'.handed = last.handed
    /\ last'.strategy = last.strategy

\* A save of the empty dict writes an empty mapping, and the load that
\* follows is rejected with ValueError and leaves is_config_initialized false.
C10_EmptyCase ==
    /\ [][(/\ last'.op = "save"
           /\ last'.strategy_ret = PyBool(TRUE)
           /\ config_data = EmptyDict) =>
             /\ files'[last'.handed].kind = "mapping"
             /\ DOMAIN files'[last'.handed].items = {}]_vars
    /\ [][(SaveThenLoad /\ config_data = EmptyDict) =>
             /\ last'.err = "ValueError"
             /\ ~is_config_initialized'
             /\ config_data' = EmptyDict]_vars

C4_TwoViewsOfData ==
    /\ (last.op = "setitem") =>
          attribute_read(Self, last.key) = [err |-> "none", ret |-> last.value]
    /\ (last.op = "setattr" /\ last.key \in last.keys_before) =>
          ConfigManager_getitem(Self, last.key) = [err |-> "none", ret |-> last.value]

\* C5: an attribute read of a name that is a key of __config_data returns
\* __config_data[name], whatever else carries that name.
C5_KeyInDataWins ==
    (last.op = "getattr" /\ last.key \in DOMAIN config_data) =>
        (last.err = "none" /\ last.ret = config_data[last.key])

\* The path and the strategy a load or save step resolves, from the state
\* it starts in and the arguments kept in last'.
EffectivePath == Or(last'.arg_path, config_file_path)
EffectiveLoader ==
    IF last'.op = "load" THEN Or(last'.arg_loader, config_loader) ELSE config_loader

\* C6: a load or save whose strategy is an object that is no
\* ConfigLoaderBase fails with ValueError, and no load_config or save_config
\* is called on that object.
C6_NonLoaderRejected ==
    [][(/\ last'.op \in {"load", "save"}
        /\ EffectiveLoader # None_
        /\ ~IsConfigLoader(EffectiveLoader)) =>
          (last'.err = "ValueError" /\ last'.method = "none")]_vars

\* A load or save that starts with no path or no strategy fails before the
\* strategy is called and changes neither the files nor the data.
FailsFast ==
    (last'.op \in {"load", "save"} /\ (EffectivePath = None_ \/ EffectiveLoader = None_)) =>
        /\ last'.err \in {"ValueError", "AssertionError"}
        /\ last'.method = "none"
        /\ files' = files
        /\ config_data' = config_data
        /\ is_config_initialized' = is_config_initialized

\* C7 as stated: fail fast, and a save with no strategy set fails with
\* AssertionError whatever the rest of the Store's state is.
C7_SaveWithoutStrategyAsserts ==
    [][/\ FailsFast
       /\ (last'.op = "save" /\ config_loader = None_) =>
              last'.err = "AssertionError"]_vars

\* C7 amended: fail fast, and a save with no strategy set fails with
\* AssertionError when its path is a str or Path, and with the path
\* setter's ValueError when it is not.
C7_FailFast ==
    [][/\ FailsFast
       /\ (last'.op = "save" /\ config_loader = None_) =>
              last'.err = IF IsStrOrPath(EffectivePath) THEN "AssertionError"
                          ELSE "ValueError"]_vars

\* A save on a Store that has neither a path nor a strategy.
C7_Witness ==
    /\ last.op = "save"
    /\ last.err = "ValueError"
    /\ config_loader = None_
    /\ config_file_path = None_

\* A load or save without a path keeps __config_file_path and hands it to
\* the strategy.
UsesRememberedPath ==
    /\ config_file_path' = config_file_path
    /\ last'.method # "none" => last'.handed = config_file_path

\* A load or save with the path p stores p and hands it to the strategy.
UsesGivenPath(p) ==
    /\ config_file_path' = p
    /\ last'.method # "none" => last'.handed = p

\* C8 as stated: every explicit path is handed to the strategy and
\* remembered; a call without a path uses the most recent one.
C8_LastPathUsed ==
    [][(last'.op \in {"load", "save"}) =>
          /\ IsStrOrPath(last'.arg_path) => UsesGivenPath(last'.arg_path)
          /\ last'.arg_path = None_ => UsesRememberedPath]_vars

\* C8 amended: the same for every explicit path that is not the empty
\* string; the empty string counts as no path.
C8_LastNonEmptyPathUsed ==
    [][(last'.op \in {"load", "save"}) =>
          /\ (IsStrOrPath(last'.arg_path) /\ last'.arg_path # EmptyStr) =>
                UsesGivenPath(last'.arg_path)
          /\ last'.arg_path \in {None_, EmptyStr} => UsesRememberedPath]_vars

\* A call without a path hands the strategy Path2 although the JSON loader
\* was last given Path1: the path was changed by a call in between.
C8_Witness ==
    /\ last.op \in {"load", "save"}
    /\ last.arg_path = None_
    /\ last.method = "save_config"
    /\ last.strategy = YamlLoader
    /\ last.handed = Path2
    /\ loaders[JsonLoader].sub_file_path = Path1

\* C9: after a call on a loader with an explicit str path p, the next call
\* on that loader without a path resolves to p and raises no AssertionError.
C9_LoaderRemembersPath ==
    [][(/\ last.op \in {"check_path", "load_config", "save_config"}
        /\ IsStrOrPath(last.arg_path)
        /\ last'.op \in {"check_path", "load_config", "save_config"}
        /\ last'.strategy = last.strategy
        /\ last'.arg_path = None_) =>
          (last'.err # "AssertionError" /\ last'.resolved = last.arg_path)]_vars

====
